---- MODULE Spec2Model ----
(***************************************************************************)
(* Model of tronprofit_ai.py: the indicator/decision engine, the trade     *)
(* ledger (log_trade / read_last_trade / calculate_profit) and the main    *)
(* loop run_bot.                                                           *)
(*                                                                         *)
(* Text is modelled as sequences of one-character strings, so that the     *)
(* substring test, strip and split of read_last_trade are computed as the  *)
(* code computes them.  Floating-point values of the indicator engine are  *)
(* modelled in fixed point (Scale units per 1.0) extended with the three   *)
(* special values NaN, Inf and -Inf of IEEE arithmetic.  Prices are        *)
(* integral.                                                               *)
(***************************************************************************)
EXTENDS Integers, Sequences, FiniteSets, TLC

VARIABLES
    pc,            \* position of run_bot
    cycle,         \* number of the current pass of `while True`
    idx,           \* index into TRADE_SYMBOLS of the `for` loop
    file_exists,   \* os.path.exists(TRADE_LOG_FILE)
    ledger,        \* lines of TRADE_LOG_FILE, each a sequence of characters
    clock,         \* wall clock (hours), source of datetime.utcnow()
    df,            \* closes fetched inside ai_decision_engine (line 67)
    latest,        \* indicator snapshot df.iloc[-1] (lines 73-78)
    decision,      \* local `decision` of run_bot
    current_price, \* local `current_price` of run_bot
    profit,        \* local `profit` (micro-USDT)
    fee,           \* local `fee` (micro-USDT)
    result,        \* local `result`: the exchange's response
    submitted,     \* parameters of the last order request posted
    error,         \* the call whose exception ended run_bot, or "none"
    trace,         \* calls made so far in the current (or just finished) iteration
    ledger0        \* the ledger as it was when the current iteration began

vars == <<pc, cycle, idx, file_exists, ledger, clock, df, latest, decision,
          current_price, profit, fee, result, submitted, error, trace, ledger0>>

(***************************************************************************)
(* Bounds                                                                  *)
(***************************************************************************)
MaxCycles == 2
MaxLen == 17

(***************************************************************************)
(* Program constants                                                       *)
(***************************************************************************)
RSI_PERIOD == 14
RSI_BUY == 30
RSI_SELL == 70
EMA_FAST == 12
EMA_SLOW == 26
MACD_SIGNAL == 9
SLEEP_HOURS == 1
\* TRADE_QUANTITY = 0.001, in micro-units per unit of price difference
TRADE_QUANTITY == 1000
\* PERFORMANCE_FEE = 0.20, in percent
PERFORMANCE_FEE == 20

\* fixed-point units per 1.0 in the indicator engine
Scale == 1000

\* IEEE values: a finite number v (in 1/Scale units), or NaN, +Inf, -Inf
Num(n) == [kind |-> "num", v |-> n]
NaN == [kind |-> "nan", v |-> 0]
Inf == [kind |-> "inf", v |-> 1]
NegInf == [kind |-> "inf", v |-> -1]

\* Python's None in the two positions read_last_trade returns it
NoType == <<"None">>
NoPrice == -1
\* float() raising on a text that is not a number
ValueError == -2

(***************************************************************************)
(* Text                                                                    *)
(***************************************************************************)
BTCUSDT == <<"B", "T", "C", "U", "S", "D", "T">>
WBTCUSDT == <<"W", "B", "T", "C", "U", "S", "D", "T">>
BUY == <<"B", "U", "Y">>
SELL == <<"S", "E", "L", "L">>
HOLD == <<"H", "O", "L", "D">>

\* TRADE_SYMBOLS = os.getenv("TRADE_SYMBOLS", ...).split('|'),
\* configured as "BTCUSDT|WBTCUSDT"
TRADE_SYMBOLS == <<BTCUSDT, WBTCUSDT>>

DigitChar == <<"0", "1", "2", "3", "4", "5", "6", "7", "8", "9">>

DigitVal(c) == CHOOSE d \in 0..9 : DigitChar[d + 1] = c

IsDigit(c) == \E d \in 0..9 : DigitChar[d + 1] = c

RECURSIVE FormatNat(_)
FormatNat(n) ==
    IF n < 10 THEN <<DigitChar[n + 1]>>
    ELSE FormatNat(n \div 10) \o <<DigitChar[(n % 10) + 1]>>

\* str() of a float64 holding an integral value: "49.0"
FormatFloat(x) == FormatNat(x) \o <<".", "0">>

RECURSIVE ParseNat(_)
ParseNat(s) ==
    IF Len(s) = 0 THEN 0
    ELSE 10 * ParseNat(SubSeq(s, 1, Len(s) - 1)) + DigitVal(s[Len(s)])

\* position of the first occurrence of character c in s, or 0
IndexOf(s, c) ==
    IF \E i \in 1..Len(s) : s[i] = c
    THEN CHOOSE i \in 1..Len(s) : s[i] = c /\ \A j \in 1..(i - 1) : s[j] # c
    ELSE 0

\* float(text) for the decimal texts FormatFloat writes: digits, ".", zeros.
\* A text that is not such a number makes float() raise.
ParseFloat(s) ==
    LET dot == IndexOf(s, ".")
        ip == IF dot = 0 THEN s ELSE SubSeq(s, 1, dot - 1)
        fp == IF dot = 0 THEN <<>> ELSE SubSeq(s, dot + 1, Len(s))
    IN  IF /\ Len(ip) > 0
           /\ \A i \in 1..Len(ip) : IsDigit(ip[i])
           /\ \A i \in 1..Len(fp) : fp[i] = "0"
        THEN ParseNat(ip)
        ELSE ValueError

\* Python's `sub in s` on strings
Contains(s, sub) ==
    \E i \in 0..(Len(s) - Len(sub)) : SubSeq(s, i + 1, i + Len(sub)) = sub

IsSpace(c) == c \in {" ", "\n", "\t", "\r"}

\* str.strip()
RECURSIVE Strip(_)
Strip(s) ==
    IF Len(s) = 0 THEN s
    ELSE IF IsSpace(s[1]) THEN Strip(Tail(s))
    ELSE IF IsSpace(s[Len(s)]) THEN Strip(SubSeq(s, 1, Len(s) - 1))
    ELSE s

\* str.split(',')
RECURSIVE Split(_)
Split(s) ==
    LET c == IndexOf(s, ",")
    IN  IF c = 0 THEN <<s>>
        ELSE <<SubSeq(s, 1, c - 1)>> \o Split(SubSeq(s, c + 1, Len(s)))

\* datetime.utcnow().isoformat(), reduced to day "T" hour: digits and the
\* separator letter T, never a comma
Pad2(n) == IF n < 10 THEN <<"0">> \o FormatNat(n) ELSE FormatNat(n)

IsoFormat(t) == Pad2(4 + (t \div 24)) \o <<"T">> \o Pad2(t % 24)

(***************************************************************************)
(* Floating point                                                          *)
(***************************************************************************)
IsNaN(a) == a.kind = "nan"

\* a < b; every comparison with NaN is False
FLt(a, b) ==
    /\ ~IsNaN(a)
    /\ ~IsNaN(b)
    /\ IF a.kind = "inf" THEN a.v < 0 /\ b # a
       ELSE IF b.kind = "inf" THEN b.v > 0
       ELSE a.v < b.v

FGt(a, b) == FLt(b, a)

FNeg(a) == IF a.kind = "nan" THEN NaN ELSE [kind |-> a.kind, v |-> 0 - a.v]

FAdd(a, b) ==
    IF IsNaN(a) \/ IsNaN(b) THEN NaN
    ELSE IF a.kind = "inf" /\ b.kind = "inf" THEN (IF a = b THEN a ELSE NaN)
    ELSE IF a.kind = "inf" THEN a
    ELSE IF b.kind = "inf" THEN b
    ELSE Num(a.v + b.v)

FSub(a, b) == FAdd(a, FNeg(b))

Sign(n) == IF n < 0 THEN -1 ELSE 1

Abs(n) == IF n < 0 THEN 0 - n ELSE n

\* integer quotient rounded toward zero
Quot(n, d) == Sign(n) * Sign(d) * (Abs(n) \div Abs(d))

\* a / b as numpy divides: x/0 is +-Inf, 0/0 is NaN, nothing is raised
FDiv(a, b) ==
    IF IsNaN(a) \/ IsNaN(b) THEN NaN
    ELSE IF a.kind = "inf" THEN (IF b.kind = "inf" THEN NaN
                                 ELSE IF b.v < 0 THEN FNeg(a) ELSE a)
    ELSE IF b.kind = "inf" THEN Num(0)
    ELSE IF b.v = 0 THEN (IF a.v = 0 THEN NaN
                          ELSE IF a.v > 0 THEN Inf ELSE NegInf)
    ELSE Num(Quot(a.v * Scale, b.v))

\* Series.clip(lower=0) and Series.clip(upper=0); NaN stays NaN
ClipLower0(a) == IF a.kind = "num" /\ a.v < 0 THEN Num(0) ELSE a

ClipUpper0(a) == IF a.kind = "num" /\ a.v > 0 THEN Num(0) ELSE a

(***************************************************************************)
(* Indicator engine                                                        *)
(***************************************************************************)
\* pd.to_numeric(df['close']): the close column as floats
ToNumeric(closes) == [i \in 1..Len(closes) |-> Num(closes[i] * Scale)]

\* Series.diff(): the first element has no predecessor
Diff(prices) ==
    [i \in 1..Len(prices) |->
        IF i = 1 THEN NaN ELSE FSub(prices[i], prices[i - 1])]

RECURSIVE SumV(_, _, _)
SumV(xs, lo, hi) == IF lo > hi THEN 0 ELSE xs[hi].v + SumV(xs, lo, hi - 1)

\* Series.rolling(window).mean(): min_periods defaults to the window, so a
\* window that is not full, or that holds a NaN, yields NaN
RollingMean(xs, window) ==
    [i \in 1..Len(xs) |->
        IF i < window \/ \E j \in (i - window + 1)..i : xs[j].kind # "num"
        THEN NaN
        ELSE Num(Quot(SumV(xs, i - window + 1, i), window))]

\* calculate_rsi with the undefined values filled with 0 (rsi.fillna(0))
calculate_rsi_fillna(prices, period) ==
    LET delta == Diff(prices)
        gain == [i \in 1..Len(delta) |-> ClipLower0(delta[i])]
        loss == [i \in 1..Len(delta) |-> FNeg(ClipUpper0(delta[i]))]
        avg_gain == RollingMean(gain, period)
        avg_loss == RollingMean(loss, period)
    IN  [i \in 1..Len(prices) |->
            LET rs == FDiv(avg_gain[i], avg_loss[i])
                r == FSub(Num(100 * Scale),
                          FDiv(Num(100 * Scale), FAdd(Num(Scale), rs)))
            IN  IF IsNaN(r) THEN Num(0) ELSE r]

calculate_rsi(prices, period) ==
    LET delta == Diff(prices)
        gain == [i \in 1..Len(delta) |-> ClipLower0(delta[i])]
        loss == [i \in 1..Len(delta) |-> FNeg(ClipUpper0(delta[i]))]
        avg_gain == RollingMean(gain, period)
        avg_loss == RollingMean(loss, period)
    IN  [i \in 1..Len(prices) |->
            LET rs == FDiv(avg_gain[i], avg_loss[i])
            IN  FSub(Num(100 * Scale),
                     FDiv(Num(100 * Scale), FAdd(Num(Scale), rs)))]

\* Series.ewm(span, adjust=False).mean(): y[1] = x[1],
\* y[t] = (1 - a) y[t-1] + a x[t] with a = 2 / (span + 1)
RECURSIVE calculate_ema(_, _)
calculate_ema(prices, span) ==
    IF Len(prices) <= 1 THEN prices
    ELSE LET prev == calculate_ema(SubSeq(prices, 1, Len(prices) - 1), span)
             y == prev[Len(prev)].v
             x == prices[Len(prices)].v
         IN  Append(prev, Num(Quot((span - 1) * y + 2 * x, span + 1)))

calculate_macd(prices) ==
    LET ema12 == calculate_ema(prices, EMA_FAST)
        ema26 == calculate_ema(prices, EMA_SLOW)
        macd_line == [i \in 1..Len(prices) |-> FSub(ema12[i], ema26[i])]
        signal_line == calculate_ema(macd_line, MACD_SIGNAL)
    IN  [macd |-> macd_line, signal |-> signal_line]

\* lines 68-78: the indicator columns and their last row
Snapshot(closes) ==
    LET prices == ToNumeric(closes)
        n == Len(closes)
        m == calculate_macd(prices)
    IN  [rsi |-> calculate_rsi(prices, RSI_PERIOD)[n],
         ema12 |-> calculate_ema(prices, EMA_FAST)[n],
         ema26 |-> calculate_ema(prices, EMA_SLOW)[n],
         macd |-> m.macd[n],
         signal |-> m.signal[n]]

\* the decision rule with the MACD test left out of the BUY branch
Decide_NoMacd(s) ==
    IF /\ FLt(s.rsi, Num(RSI_BUY * Scale))
       /\ FGt(s.ema12, s.ema26)
    THEN BUY
    ELSE IF /\ FGt(s.rsi, Num(RSI_SELL * Scale))
            /\ FLt(s.ema12, s.ema26)
            /\ FLt(s.macd, s.signal)
    THEN SELL
    ELSE HOLD

\* lines 80-84
Decide(s) ==
    IF /\ FLt(s.rsi, Num(RSI_BUY * Scale))
       /\ FGt(s.ema12, s.ema26)
       /\ FGt(s.macd, s.signal)
    THEN BUY
    ELSE IF /\ FGt(s.rsi, Num(RSI_SELL * Scale))
            /\ FLt(s.ema12, s.ema26)
            /\ FLt(s.macd, s.signal)
    THEN SELL
    ELSE HOLD

(***************************************************************************)
(* Trade ledger                                                            *)
(***************************************************************************)
\* line 111: the entry log_trade writes
Entry(timestamp, symbol, trade_type, price) ==
    timestamp \o <<",">> \o symbol \o <<",">> \o trade_type \o <<",">>
        \o FormatFloat(price) \o <<"\n">>

\* lines 109-113: the file after open(TRADE_LOG_FILE, 'a') and write
log_trade(lines, now, symbol, trade_type, price) ==
    Append(lines, Entry(IsoFormat(now), symbol, trade_type, price))

\* line 119: the lines kept by `if symbol in line`
MatchingLines(lines, symbol) ==
    SelectSeq(lines, LAMBDA line : Contains(line, symbol))

\* read_last_trade taking the first matching line (lines[0]) instead of the last
read_last_trade_first(exists, lines, symbol) ==
    IF ~exists THEN [type |-> NoType, price |-> NoPrice]
    ELSE LET matching == MatchingLines(lines, symbol)
         IN  IF Len(matching) = 0 THEN [type |-> NoType, price |-> NoPrice]
             ELSE LET last == Split(Strip(matching[1]))
                  IN  [type |-> last[3], price |-> ParseFloat(last[4])]

\* lines 115-123
read_last_trade(exists, lines, symbol) ==
    IF ~exists THEN [type |-> NoType, price |-> NoPrice]
    ELSE LET matching == MatchingLines(lines, symbol)
         IN  IF Len(matching) = 0 THEN [type |-> NoType, price |-> NoPrice]
             ELSE LET last == Split(Strip(matching[Len(matching)]))
                  IN  [type |-> last[3], price |-> ParseFloat(last[4])]

\* lines 125-135; amounts in micro-USDT
calculate_profit(exists, lines, symbol, price) ==
    LET last == read_last_trade(exists, lines, symbol)
    IN  IF last.type = BUY
        THEN LET p == (price - last.price) * TRADE_QUANTITY
             IN  [profit |-> p, fee |-> (p * PERFORMANCE_FEE) \div 100]
        ELSE IF last.type = SELL
        THEN LET p == (last.price - price) * TRADE_QUANTITY
             IN  [profit |-> p, fee |-> (p * PERFORMANCE_FEE) \div 100]
        ELSE [profit |-> 0, fee |-> 0]

(***************************************************************************)
(* The exchange                                                            *)
(***************************************************************************)
\* candle series the market-data endpoint may answer with (closes only)
SpikeUp == <<50, 70, 50, 50, 50, 50, 50, 50, 50, 50, 50, 50, 50, 50, 50, 50, 51>>
SpikeDown == <<50, 30, 50, 50, 50, 50, 50, 50, 50, 50, 50, 50, 50, 50, 50, 50, 49>>
Young == <<48, 51>>

Market == {SpikeUp, SpikeDown, Young}

\* what the order endpoint may answer with
Responses == {"FILLED", "REJECTED"}

\* candle series for the engine taken alone: length n, a step of a at
\* candle i, a step of b at the next one, a step of e at the last one
Series(n, i, a, b, e) ==
    [k \in 1..n |-> 50 + (IF k >= i THEN a ELSE 0)
                       + (IF k >= i + 1 THEN b ELSE 0)
                       + (IF k = n THEN e ELSE 0)]

Steps == {-20, 0, 20}
LastSteps == {-1, 0, 1}

Family ==
    {Series(n, i, a, b, e) : n \in 1..MaxLen, i \in 1..3, a \in Steps,
                             b \in Steps, e \in LastSteps}

(***************************************************************************)
(* run_bot                                                                 *)
(***************************************************************************)
NoSnapshot == [rsi |-> NaN, ema12 |-> NaN, ema26 |-> NaN, macd |-> NaN,
               signal |-> NaN]

NoOrder == [symbol |-> <<>>, side |-> <<>>, quantity |-> 0]

symbol == TRADE_SYMBOLS[idx]

Init ==
    /\ pc = "decide"
    /\ cycle = 1
    /\ idx = 1
    /\ file_exists \in BOOLEAN
    /\ ledger = <<>>
    /\ clock = 0
    /\ df = <<>>
    /\ latest = NoSnapshot
    /\ decision = <<>>
    /\ current_price = 0
    /\ profit = 0
    /\ fee = 0
    /\ result = "none"
    /\ submitted = NoOrder
    /\ error = "none"
    /\ trace = <<>>
    /\ ledger0 = <<>>

\* line 141: ai_decision_engine(symbol), the market answering with closes
AiDecisionEngine ==
    /\ pc = "decide"
    /\ \E closes \in Market :
        /\ df' = closes
        /\ latest' = Snapshot(closes)
        /\ decision' = Decide(Snapshot(closes))
    /\ trace' = <<"ai_decision_engine">>
    /\ ledger0' = ledger
    /\ pc' = "price"
    /\ UNCHANGED <<cycle, idx, file_exists, ledger, clock, current_price,
                   profit, fee, result, submitted, error>>

\* line 141 or 142: requests.get raises inside get_klines
GetKlinesRaises ==
    /\ pc \in {"decide", "price"}
    /\ error' = "get_klines"
    /\ pc' = "crashed"
    /\ UNCHANGED <<cycle, idx, file_exists, ledger, clock, df, latest,
                   decision, current_price, profit, fee, result, submitted,
                   trace, ledger0>>

\* line 142: current_price = get_klines(symbol).iloc[-1]['close']
GetCurrentPrice ==
    /\ pc = "price"
    /\ \E closes \in Market : current_price' = closes[Len(closes)]
    /\ trace' = Append(trace, "get_klines")
    /\ pc' = "profit"
    /\ UNCHANGED <<cycle, idx, file_exists, ledger, clock, df, latest,
                   decision, profit, fee, result, submitted, error, ledger0>>

\* line 143
CalculateProfit ==
    /\ pc = "profit"
    /\ LET r == calculate_profit(file_exists, ledger, symbol, current_price)
       IN  /\ profit' = r.profit
           /\ fee' = r.fee
    /\ trace' = Append(trace, "calculate_profit")
    /\ pc' = "notify"
    /\ UNCHANGED <<cycle, idx, file_exists, ledger, clock, df, latest,
                   decision, current_price, result, submitted, error, ledger0>>

\* where the `for` loop goes after the body: the next symbol or the sleep
NextSymbol ==
    IF idx < Len(TRADE_SYMBOLS)
    THEN /\ idx' = idx + 1
         /\ pc' = "decide"
    ELSE /\ idx' = idx
         /\ pc' = "sleep"

\* the branch with the SELL decision sent down the BUY path
Branch_SellAsBuy(d) ==
    IF d = BUY THEN "buy" ELSE IF d = SELL THEN "buy" ELSE "hold"

\* the branch of lines 149, 154 and 159
Branch(d) ==
    IF d = BUY THEN "buy" ELSE IF d = SELL THEN "sell" ELSE "hold"

\* lines 145-147, then the test of lines 149-159; send_telegram_message
\* swallows its own failures
Notify ==
    /\ pc = "notify"
    /\ trace' = Append(trace, "send_telegram_message")
    /\ pc' = Branch(decision)
    /\ UNCHANGED <<cycle, idx, file_exists, ledger, clock, df, latest,
                   decision, current_price, profit, fee, result, submitted,
                   error, ledger0>>

\* the side written at lines 150-151 and 155-156
Side == IF pc = "buy" THEN BUY ELSE SELL

\* lines 150 and 155: send_order returns the exchange's answer
SendOrder ==
    /\ pc \in {"buy", "sell"}
    /\ submitted' = [symbol |-> symbol, side |-> Side,
                     quantity |-> TRADE_QUANTITY]
    /\ \E r \in Responses : result' = r
    /\ trace' = Append(trace, "send_order")
    /\ pc' = IF pc = "buy" THEN "log_buy" ELSE "log_sell"
    /\ UNCHANGED <<cycle, idx, file_exists, ledger, clock, df, latest,
                   decision, current_price, profit, fee, error, ledger0>>

\* the exception of send_order caught and the loop body carried on
SendOrderRaises_Swallowed ==
    /\ pc \in {"buy", "sell"}
    /\ submitted' = [symbol |-> symbol, side |-> Side,
                     quantity |-> TRADE_QUANTITY]
    /\ trace' = Append(trace, "send_order")
    /\ error' = "send_order"
    /\ pc' = IF pc = "buy" THEN "log_buy" ELSE "log_sell"
    /\ UNCHANGED <<cycle, idx, file_exists, ledger, clock, df, latest,
                   decision, current_price, profit, fee, result, ledger0>>

\* lines 150 and 155: requests.post raises inside send_order
SendOrderRaises ==
    /\ pc \in {"buy", "sell"}
    /\ submitted' = [symbol |-> symbol, side |-> Side,
                     quantity |-> TRADE_QUANTITY]
    /\ trace' = Append(trace, "send_order")
    /\ error' = "send_order"
    /\ pc' = "crashed"
    /\ UNCHANGED <<cycle, idx, file_exists, ledger, clock, df, latest,
                   decision, current_price, profit, fee, result, ledger0>>

\* lines 151 and 156
LogTrade ==
    /\ pc \in {"log_buy", "log_sell"}
    /\ ledger' = log_trade(ledger, clock, symbol,
                           IF pc = "log_buy" THEN BUY ELSE SELL, current_price)
    /\ file_exists' = TRUE
    /\ trace' = Append(trace, "log_trade")
    /\ pc' = "report"
    /\ UNCHANGED <<cycle, idx, clock, df, latest, decision, current_price,
                   profit, fee, result, submitted, error, ledger0>>

\* lines 152-153 and 157-158, then the next symbol
NotifyResult ==
    /\ pc = "report"
    /\ trace' = Append(trace, "send_telegram_message")
    /\ NextSymbol
    /\ UNCHANGED <<cycle, file_exists, ledger, clock, df, latest, decision,
                   current_price, profit, fee, result, submitted, error,
                   ledger0>>

\* line 160, then the next symbol
Hold ==
    /\ pc = "hold"
    /\ trace' = Append(trace, "print_hold")
    /\ NextSymbol
    /\ UNCHANGED <<cycle, file_exists, ledger, clock, df, latest, decision,
                   current_price, profit, fee, result, submitted, error,
                   ledger0>>

\* line 161, then the next pass of `while True`
Sleep ==
    /\ pc = "sleep"
    /\ cycle < MaxCycles
    /\ cycle' = cycle + 1
    /\ clock' = clock + SLEEP_HOURS
    /\ idx' = 1
    /\ pc' = "decide"
    /\ UNCHANGED <<file_exists, ledger, df, latest, decision, current_price,
                   profit, fee, result, submitted, error, trace, ledger0>>

Next ==
    \/ AiDecisionEngine
    \/ GetKlinesRaises
    \/ GetCurrentPrice
    \/ CalculateProfit
    \/ Notify
    \/ SendOrder
    \/ SendOrderRaises
    \/ LogTrade
    \/ NotifyResult
    \/ Hold
    \/ Sleep

Spec == Init /\ [][Next]_vars

(***************************************************************************)
(* The decision engine taken alone, on the candle series of Family         *)
(***************************************************************************)
InitEngine ==
    /\ pc = "engine"
    /\ df \in Family
    /\ cycle = 1
    /\ idx = 1
    /\ file_exists = FALSE
    /\ ledger = <<>>
    /\ clock = 0
    /\ latest = NoSnapshot
    /\ decision = <<>>
    /\ current_price = 0
    /\ profit = 0
    /\ fee = 0
    /\ result = "none"
    /\ submitted = NoOrder
    /\ error = "none"
    /\ trace = <<>>
    /\ ledger0 = <<>>

\* lines 68-84 applied to the candles fetched
EngineDecide ==
    /\ pc = "engine"
    /\ latest' = Snapshot(df)
    /\ decision' = Decide(Snapshot(df))
    /\ pc' = "engine_done"
    /\ UNCHANGED <<cycle, idx, file_exists, ledger, clock, df, current_price,
                   profit, fee, result, submitted, error, trace, ledger0>>

\* line 67 of the next call: new candles, the earlier decision still around
EngineRefetch ==
    /\ pc = "engine_done"
    /\ \E closes \in Market : df' = closes
    /\ pc' = "engine"
    /\ UNCHANGED <<cycle, idx, file_exists, ledger, clock, latest, decision,
                   current_price, profit, fee, result, submitted, error,
                   trace, ledger0>>

NextEngine ==
    \/ EngineDecide
    \/ EngineRefetch

SpecEngine == InitEngine /\ [][NextEngine]_vars

(***************************************************************************)
(* Properties                                                              *)
(***************************************************************************)
Symbols == {TRADE_SYMBOLS[i] : i \in 1..Len(TRADE_SYMBOLS)}

Has(call) == \E i \in 1..Len(trace) : trace[i] = call

Count(call) == Cardinality({i \in 1..Len(trace) : trace[i] = call})

IsPrefix(a, b) == Len(a) <= Len(b) /\ SubSeq(b, 1, Len(a)) = a

Fields(line) == Split(Strip(line))

NoTrade == [type |-> NoType, price |-> NoPrice]

\* the last record whose symbol field equals s
OwnLastTrade(lines, s) ==
    LET own == SelectSeq(lines, LAMBDA line : Fields(line)[2] = s)
    IN  IF Len(own) = 0 THEN NoTrade
        ELSE [type |-> Fields(own[Len(own)])[3],
              price |-> ParseFloat(Fields(own[Len(own)])[4])]

\* C1: appending a record for another symbol never changes what
\* read_last_trade returns for a symbol
C1_NoCrossSymbolLeak ==
    [][\A s \in Symbols :
          (ledger' # ledger /\ s # symbol)
              => read_last_trade(file_exists', ledger', s)
                     = read_last_trade(file_exists, ledger, s)]_vars

\* C2: right after log_trade appended a record for a symbol, read_last_trade
\* of that symbol returns the side and the price just logged; an absent or
\* empty ledger has no prior trade for any symbol
C2_RoundTrip ==
    /\ (~file_exists \/ Len(ledger) = 0)
           => \A s \in Symbols :
                  read_last_trade(file_exists, ledger, s) = NoTrade
    /\ pc = "report"
           => read_last_trade(file_exists, ledger, symbol)
                  = [type |-> decision, price |-> current_price]

\* a second record of a symbol was just logged, with another side and price
\* than its first
C2_Witness ==
    /\ pc = "report"
    /\ LET own == SelectSeq(ledger, LAMBDA line : Fields(line)[2] = symbol)
       IN  /\ Len(own) >= 2
           /\ Fields(own[1])[3] # decision
           /\ ParseFloat(Fields(own[1])[4]) # current_price

\* C3: no record is appended for an order the exchange rejected
C3_NoRecordForRejectedOrder ==
    [][ledger' # ledger => result # "REJECTED"]_vars

\* C4: a candle series too short for RSI(14) has a NaN RSI and the decision
\* is HOLD
C4_ShortHistoryHolds ==
    (pc = "engine_done" /\ Len(df) <= RSI_PERIOD)
        => (IsNaN(latest.rsi) /\ decision = HOLD)

\* 14 candles, both EMA conditions of BUY met, and the decision is HOLD
C4_Witness ==
    /\ pc = "engine_done"
    /\ Len(df) = RSI_PERIOD
    /\ latest.ema12.v > latest.ema26.v
    /\ latest.macd.v > latest.signal.v
    /\ decision = HOLD

\* no close of the trailing 14-delta window is below its predecessor
ZeroAvgLoss(closes) ==
    /\ Len(closes) > RSI_PERIOD
    /\ \A k \in (Len(closes) - RSI_PERIOD + 1)..Len(closes) :
           closes[k] >= closes[k - 1]

\* C5: with a zero average loss in the trailing window the decision is HOLD
C5_ZeroLossHolds ==
    (pc = "engine_done" /\ ZeroAvgLoss(df)) => decision = HOLD

NumLt(a, b) == a.kind = "num" /\ b.kind = "num" /\ a.v < b.v

BuyRule ==
    /\ NumLt(latest.rsi, Num(30 * Scale))
    /\ NumLt(latest.ema26, latest.ema12)
    /\ NumLt(latest.signal, latest.macd)

SellRule ==
    /\ NumLt(Num(70 * Scale), latest.rsi)
    /\ NumLt(latest.ema12, latest.ema26)
    /\ NumLt(latest.macd, latest.signal)

\* C6: the decision is BUY exactly under the BUY rule, SELL exactly under
\* the SELL rule, HOLD otherwise, and the two rules never hold together
C6_DecisionRule ==
    pc = "engine_done"
        => /\ (decision = BUY) <=> BuyRule
           /\ (decision = SELL) <=> SellRule
           /\ (decision = HOLD) <=> (~BuyRule /\ ~SellRule)
           /\ ~(BuyRule /\ SellRule)

\* a BUY decided on a series of the family
C6_Witness ==
    /\ pc = "engine_done"
    /\ decision = BUY
    /\ BuyRule

\* C7: the profit and the fee reported are those of the symbol's own last
\* trade, and computing them leaves the ledger alone
C7_ProfitAgainstOwnLastTrade ==
    pc = "notify"
        => LET own == OwnLastTrade(ledger, symbol)
               p == IF own.type = BUY
                    THEN (current_price - own.price) * TRADE_QUANTITY
                    ELSE IF own.type = SELL
                    THEN (own.price - current_price) * TRADE_QUANTITY
                    ELSE 0
           IN  /\ profit = p
               /\ fee * 100 = p * PERFORMANCE_FEE
               /\ ledger = ledger0

HoldTrace ==
    <<"ai_decision_engine", "get_klines", "calculate_profit",
      "send_telegram_message", "print_hold">>

TradeTrace ==
    <<"ai_decision_engine", "get_klines", "calculate_profit",
      "send_telegram_message", "send_order", "log_trade",
      "send_telegram_message">>

\* an iteration of the `for` loop has begun and not run to its end
InProgress ==
    /\ pc \notin {"decide", "sleep"}
    /\ pc = "crashed" => trace \notin {<<>>, HoldTrace, TradeTrace}

\* C8: the calls of an iteration come in the order decide, price, profit,
\* notify, then (unless HOLD) order, ledger append, result notification; the
\* order has the side of the decision; the ledger gains exactly one record of
\* that symbol and side after the order returned, none on HOLD; the profit is
\* the one computed on the ledger as the iteration found it
C8_CycleOrder ==
    /\ IsPrefix(trace, IF decision = HOLD THEN HoldTrace ELSE TradeTrace)
    /\ (~InProgress /\ Len(trace) > 0)
           => trace = (IF decision = HOLD THEN HoldTrace ELSE TradeTrace)
    /\ Has("send_order")
           => /\ decision \in {BUY, SELL}
              /\ submitted.side = decision
              /\ submitted.quantity = TRADE_QUANTITY
              /\ (InProgress => submitted.symbol = symbol)
    /\ IF Has("log_trade")
       THEN /\ result \in Responses
            /\ Len(ledger) = Len(ledger0) + 1
            /\ SubSeq(ledger, 1, Len(ledger0)) = ledger0
            /\ Fields(ledger[Len(ledger)])[2] = submitted.symbol
            /\ Fields(ledger[Len(ledger)])[3] = decision
       ELSE ledger = ledger0
    /\ (Has("calculate_profit") /\ InProgress)
           => LET r == calculate_profit(TRUE, ledger0, symbol, current_price)
              IN  profit = r.profit /\ fee = r.fee

\* an iteration that decided SELL has run to its end
C8_Witness ==
    /\ pc \in {"decide", "sleep"}
    /\ decision = SELL
    /\ trace = TradeTrace
    /\ Len(ledger) = Len(ledger0) + 1
    /\ Len(ledger0) > 0

\* C9: when send_order raises, run_bot stops there: one submission, no
\* record appended, the ledger as the iteration found it, and no step after
C9_OrderFailureStops ==
    [][/\ error # "send_order"
       /\ error' = "send_order"
              => /\ pc' = "crashed"
                 /\ ledger' = ledger
                 /\ ledger' = ledger0'
                 /\ Count("send_order")' = 1
                 /\ ~Has("log_trade")']_vars

\* send_order raised for the first symbol of the first cycle
C9_Witness ==
    /\ error = "send_order"
    /\ pc = "crashed"
    /\ cycle = 1
    /\ idx = 1
    /\ cycle < MaxCycles

\* C10: the price used after the decision is the last close of the candles
\* the decision was computed from
C10_PriceFromDecisionCandles ==
    Has("get_klines") => current_price = df[Len(df)]

====
